---------------------------- MODULE Spec2Model ----------------------------
(***************************************************************************)
(* A model of the pingora_proxy reverse proxy: the backend registry built  *)
(* by load_backends from the BACKENDS environment value, the selection     *)
(* engine of LoadBalancer, the health monitor loop of HealthChecker and    *)
(* the three request hooks of MyProxy, as wired together by main.          *)
(*                                                                         *)
(* Strings are sequences of one-character strings so that splitting and    *)
(* integer parsing are computed the way the code computes them.  A backend *)
(* returned by a selection is identified by its 1-based position in the    *)
(* registry; 0 stands for Option::None.                                    *)
(***************************************************************************)
EXTENDS Integers, Sequences, FiniteSets, TLC

VARIABLES
    env,          \* BACKENDS: [set |-> BOOLEAN, val |-> string]
    strategy,     \* LoadBalancer.strategy (LOAD_BALANCE_STRATEGY)
    config,       \* HealthCheckConfig: [enabled, success_codes]
    main_pc,      \* position of main
    probe_i,      \* main's position in the startup connectivity loop
    backends,     \* the shared Vec<Backend> behind Arc<RwLock<..>>
    lock_w,       \* holder of the registry write lock, or "none"
    lock_r,       \* holders of the registry read lock
    counter,      \* LoadBalancer.counter
    session_map,  \* LoadBalancer.session_map: token -> candidate index
    hc_pc,        \* position of health_check_loop
    hc_i,         \* backend the health loop is at within a tick
    now,          \* the monotonic clock read by Instant::now()
    req_pc,       \* position of the request in flight
    req_cookie,   \* affinity cookie carried by the request, or NoToken
    ctx,          \* the request's CTX: Option<String>
    set_cookie,   \* token of the Set-Cookie header of the last response
    calls,        \* select_backend calls made so far
    last,         \* observation of the in-flight request's select_backend call
    run,          \* backends returned since the health flags last changed
    bound_to,     \* token -> backend first returned for it (0: none yet)
    bound_flip,   \* token -> has that backend's flag changed since
    last_probe,   \* observation of the probe just made in the running tick
    ssl_env,      \* SSL: [set |-> BOOLEAN, val |-> string]
    cert_file,    \* ssl/server.pem: [kind, date, rem]
    key_file,     \* ssl/server.key: "absent", "garbage" or "ok"
    ssl_status,   \* SslEnabled.status as is_ssl_enabled returned it
    day_cert,     \* the SslWatcher value of the watcher's last check_cert
    gen,          \* the run and the result of the generate_ssl call made
    tls_gen,      \* writes made so far to each file: [key, cert]
    tls_loaded,   \* the pair a TLS listener loaded: [loaded, key, cert]
    sel           \* the sticky_session calls in progress, one per task

cert_vars == <<ssl_env, cert_file, key_file, ssl_status, day_cert, gen,
               tls_gen, tls_loaded>>

vars == <<env, strategy, config, main_pc, probe_i, backends, lock_w,
          lock_r, counter, session_map, hc_pc, hc_i, now, req_pc,
          req_cookie, ctx, set_cookie, calls, last, run, bound_to,
          bound_flip, last_probe, cert_vars, sel>>

-----------------------------------------------------------------------------
(* Bounds of the model. *)

\* Entries of a BACKENDS value explored by the loader specification.
MaxEntries == 3
\* select_backend calls explored by the serving specification.
MaxCalls == 3
\* select_backend calls explored by the distribution specification.
MaxWindowCalls == 130
\* Health-check ticks (sleeps) explored.
MaxTicks == 2
\* Days past its not-after beyond which an expired certificate's age is no
\* longer told apart.
MaxPastDays == 2

-----------------------------------------------------------------------------
(* Program constants. *)

\* u16::MAX, the largest port parse::<u16>() accepts.
U16Max == 65535
\* The weight total load_backends normalizes to.
WeightTotal == 100
\* The modulus of the weighted draw.
DrawModulus == 100
\* Weight of an entry that declares none (or an unparseable one).
DefaultWeight == 1
\* Option::None for a backend, a time or a candidate index.
None == 0
NoTime == -1

NoToken == "none"

\* The watcher's sleep, thread::sleep(Duration::from_secs(60 * 60 * 24)),
\* in hours.
SleepHours == 24
\* Hours of the whole days Duration::num_days() counts.
HoursPerDay == 24
\* Validity of a generated certificate, "-days", "365".
ValidityDays == 365

-----------------------------------------------------------------------------
(* Strings. *)

Digits == {"0", "1", "2", "3", "4", "5", "6", "7", "8", "9"}

DigitVal(c) ==
    CASE c = "0" -> 0 [] c = "1" -> 1 [] c = "2" -> 2 [] c = "3" -> 3
      [] c = "4" -> 4 [] c = "5" -> 5 [] c = "6" -> 6 [] c = "7" -> 7
      [] c = "8" -> 8 [] c = "9" -> 9

\* str::split(sep): the pieces between separators; "" splits to [""].
RECURSIVE SplitFrom(_, _, _)
SplitFrom(s, sep, cur) ==
    IF s = <<>> THEN <<cur>>
    ELSE IF Head(s) = sep THEN <<cur>> \o SplitFrom(Tail(s), sep, <<>>)
    ELSE SplitFrom(Tail(s), sep, Append(cur, Head(s)))

Split(s, sep) == SplitFrom(s, sep, <<>>)

RECURSIVE DecimalValue(_, _)
DecimalValue(s, acc) ==
    IF s = <<>> THEN acc ELSE DecimalValue(Tail(s), 10 * acc + DigitVal(Head(s)))

\* <unsigned>::from_str: an optional '+', then one or more digits, no
\* other character, and a value of at most max.  Returns -1 for Err.
\* Strings of more than 9 digits are taken to overflow.
ParseUnsigned(s, max) ==
    LET body == IF s # <<>> /\ Head(s) = "+" THEN Tail(s) ELSE s
    IN  IF body = <<>> THEN -1
        ELSE IF \E i \in 1..Len(body) : body[i] \notin Digits THEN -1
        ELSE IF Len(body) > 9 THEN -1
        ELSE IF DecimalValue(body, 0) > max THEN -1
        ELSE DecimalValue(body, 0)

ParseU16(s) == ParseUnsigned(s, U16Max)

\* parse::<usize>(): usize::MAX is beyond every weight string explored.
ParseUsize(s) == ParseUnsigned(s, 999999999)

-----------------------------------------------------------------------------
(* config.rs: load_backends. *)

RECURSIVE SumWeights(_)
SumWeights(bs) ==
    IF bs = <<>> THEN 0 ELSE Head(bs).weight + SumWeights(Tail(bs))

\* ((w as f64) * (100.0 / total as f64)).round() as usize: round half away
\* from zero; with total = 0 the factor is infinite, w = 0 gives NaN and
\* NaN as usize is 0.  For the weights explored the f64 result equals the
\* exact quotient rounded.
ScaledWeight(w, total) ==
    IF total = 0 THEN 0
    ELSE (2 * WeightTotal * w + total) \div (2 * total)

NormalizeWeights(bs) ==
    LET total == SumWeights(bs)
    IN  IF total # WeightTotal
        THEN [i \in 1..Len(bs) |->
                 [bs[i] EXCEPT !.weight = ScaledWeight(bs[i].weight, total)]]
        ELSE bs

\* Mutation: an entry needs all three fields, as in main.rs.
ParseEntry_three(entry) ==
    LET parts == Split(entry, ":")
    IN  IF Len(parts) = 3 /\ ParseU16(parts[2]) # -1
        THEN <<[host |-> parts[1],
                port |-> ParseU16(parts[2]),
                weight |-> IF ParseUsize(parts[3]) # -1
                           THEN ParseUsize(parts[3])
                           ELSE DefaultWeight,
                healthy |-> TRUE,
                last_checked |-> NoTime]>>
        ELSE <<>>

\* One entry of the list: pushes a backend or pushes nothing.
ParseEntry(entry) ==
    LET parts == Split(entry, ":")
    IN  IF Len(parts) >= 2 /\ ParseU16(parts[2]) # -1
        THEN <<[host |-> parts[1],
                port |-> ParseU16(parts[2]),
                weight |-> IF Len(parts) = 3
                           THEN (IF ParseUsize(parts[3]) # -1
                                 THEN ParseUsize(parts[3])
                                 ELSE DefaultWeight)
                           ELSE DefaultWeight,
                healthy |-> TRUE,
                last_checked |-> NoTime]>>
        ELSE <<>>

RECURSIVE ParseEntries(_)
ParseEntries(entries) ==
    IF entries = <<>> THEN <<>>
    ELSE ParseEntry(Head(entries)) \o ParseEntries(Tail(entries))

ParsedBackends(e) ==
    IF e.set THEN ParseEntries(Split(e.val, ",")) ELSE <<>>

\* Mutation: the emptiness check is lost.
PanicIfEmpty_never(bs) == FALSE

\* if backends.is_empty() { panic!(..) }
PanicIfEmpty(bs) == bs = <<>>

load_backends(e) ==
    LET bs == ParsedBackends(e)
    IN  IF PanicIfEmpty(bs)
        THEN [panic |-> TRUE, backends |-> <<>>]
        ELSE [panic |-> FALSE, backends |-> NormalizeWeights(bs)]

-----------------------------------------------------------------------------
(* main.rs: the monolithic load_backends. *)

MainParseEntry(entry) ==
    LET parts == Split(entry, ":")
    IN  IF Len(parts) = 3 /\ ParseU16(parts[2]) # -1 /\ ParseUsize(parts[3]) # -1
        THEN <<[host |-> parts[1],
                port |-> ParseU16(parts[2]),
                weight |-> ParseUsize(parts[3]),
                healthy |-> TRUE,
                last_checked |-> NoTime]>>
        ELSE <<>>

RECURSIVE MainParseEntries(_)
MainParseEntries(entries) ==
    IF entries = <<>> THEN <<>>
    ELSE MainParseEntry(Head(entries)) \o MainParseEntries(Tail(entries))

main_load_backends(e) ==
    LET bs == IF e.set THEN MainParseEntries(Split(e.val, ",")) ELSE <<>>
    IN  IF bs = <<>>
        THEN [panic |-> TRUE, backends |-> <<>>]
        ELSE [panic |-> FALSE, backends |-> NormalizeWeights(bs)]

-----------------------------------------------------------------------------
(* load_balancer.rs: the selection engine.  A candidate list is a sequence  *)
(* of registry positions; every strategy returns the backend picked (None   *)
(* for Option::None) with the counter and the session map it leaves.        *)

Strategies ==
    {"RoundRobin", "Weighted", "LeastConnections", "StickySession", "Random"}

RECURSIVE HealthyFrom(_, _)
HealthyFrom(bs, i) ==
    IF i > Len(bs) THEN <<>>
    ELSE (IF bs[i].healthy THEN <<i>> ELSE <<>>) \o HealthyFrom(bs, i + 1)

\* Mutation: the health filter is lost.
healthy_backends_all(bs) == [i \in 1..Len(bs) |-> i]

\* backends.iter().filter(|b| b.healthy).collect()
healthy_backends(bs) == HealthyFrom(bs, 1)

\* backends.iter().collect()
all_backends(bs) == [i \in 1..Len(bs) |-> i]

Outcome(res, c, m) == [res |-> res, counter |-> c, session_map |-> m]

\* Mutation: the counter is read but not advanced.
round_robin_stuck(cands, c, m) ==
    IF cands = <<>> THEN Outcome(None, c, m)
    ELSE Outcome(cands[(c % Len(cands)) + 1], c, m)

\* self.counter.fetch_add(1) % backends.len()
round_robin(cands, c, m) ==
    IF cands = <<>> THEN Outcome(None, c, m)
    ELSE Outcome(cands[(c % Len(cands)) + 1], c + 1, m)

\* Mutation: the total weight is taken to be 0.
CandWeight_none(bs, cands) == 0

RECURSIVE CandWeight(_, _)
CandWeight(bs, cands) ==
    IF cands = <<>> THEN 0
    ELSE bs[Head(cands)].weight + CandWeight(bs, Tail(cands))

\* Mutation: the bucket test is choice <= acc.
RECURSIVE FirstBucket_le(_, _, _, _)
FirstBucket_le(bs, cands, choice, acc) ==
    IF cands = <<>> THEN None
    ELSE IF choice <= acc + bs[Head(cands)].weight THEN Head(cands)
    ELSE FirstBucket_le(bs, Tail(cands), choice, acc + bs[Head(cands)].weight)

\* The for loop of weighted: the first candidate whose running sum exceeds
\* the draw, None when the loop falls through.
RECURSIVE FirstBucket(_, _, _, _)
FirstBucket(bs, cands, choice, acc) ==
    IF cands = <<>> THEN None
    ELSE IF choice < acc + bs[Head(cands)].weight THEN Head(cands)
    ELSE FirstBucket(bs, Tail(cands), choice, acc + bs[Head(cands)].weight)

\* Mutation: a total weight of 0 goes through the draw like any other.
weighted_nofallback(bs, cands, c, m) ==
    IF cands = <<>> THEN Outcome(None, c, m)
    ELSE LET hit == FirstBucket(bs, cands, c % DrawModulus, 0)
         IN  Outcome(IF hit # None THEN hit ELSE cands[1], c + 1, m)

weighted(bs, cands, c, m) ==
    IF cands = <<>> THEN Outcome(None, c, m)
    ELSE IF CandWeight(bs, cands) = 0 THEN round_robin(cands, c, m)
    ELSE LET hit == FirstBucket(bs, cands, c % DrawModulus, 0)
         IN  Outcome(IF hit # None THEN hit ELSE cands[1], c + 1, m)

\* Mutation: the first candidate is taken as the least loaded one.
least_connections_first(cands, c, m) ==
    IF cands = <<>> THEN Outcome(None, c, m)
    ELSE Outcome(cands[1], c + 1, m)

least_connections(cands, c, m) == round_robin(cands, c, m)

\* Mutation: the lookup is skipped.
StickyHit_never(cands, m, tok) == FALSE

\* The stored index is used when the token has one and it is within the
\* candidate list (backends.get(backend_index) is Some).
StickyHit(cands, m, tok) ==
    /\ tok # NoToken
    /\ tok \in DOMAIN m
    /\ m[tok] < Len(cands)

\* Mutation: the session map is rebuilt with the new entry alone.
SessionInsert_alone(m, tok, backend_index) ==
    [t \in {tok} |-> backend_index]

\* session_map.insert(session_id.to_string(), backend_index)
SessionInsert(m, tok, backend_index) ==
    [t \in DOMAIN m \cup {tok} |-> IF t = tok THEN backend_index ELSE m[t]]

\* Mutation: a stored index outside the candidate list is returned as it
\* is looked up (None) instead of falling through to a new pick.
sticky_session_strict(cands, c, m, tok) ==
    IF cands = <<>> THEN Outcome(None, c, m)
    ELSE IF tok # NoToken /\ tok \in DOMAIN m
    THEN Outcome(IF m[tok] < Len(cands) THEN cands[m[tok] + 1] ELSE None, c, m)
    ELSE LET backend_index == c % Len(cands)
         IN  Outcome(cands[backend_index + 1],
                     c + 1,
                     IF tok # NoToken
                     THEN SessionInsert(m, tok, backend_index)
                     ELSE m)

sticky_session(cands, c, m, tok) ==
    IF cands = <<>> THEN Outcome(None, c, m)
    ELSE IF StickyHit(cands, m, tok) THEN Outcome(cands[m[tok] + 1], c, m)
    ELSE LET backend_index == c % Len(cands)
         IN  Outcome(cands[backend_index + 1],
                     c + 1,
                     IF tok # NoToken
                     THEN SessionInsert(m, tok, backend_index)
                     ELSE m)

\* rng.gen_range(0..backends.len()): r is the draw.
random(cands, c, m, r) ==
    IF cands = <<>> THEN Outcome(None, c, m)
    ELSE Outcome(cands[r + 1], c, m)

Dispatch(strat, bs, cands, tok, c, m, r) ==
    CASE strat = "RoundRobin" -> round_robin(cands, c, m)
      [] strat = "Weighted" -> weighted(bs, cands, c, m)
      [] strat = "LeastConnections" -> least_connections(cands, c, m)
      [] strat = "StickySession" -> sticky_session(cands, c, m, tok)
      [] strat = "Random" -> random(cands, c, m, r)

\* Mutation: the fallback takes the first backend of the registry.
select_from_all_first(strat, bs, tok, c, m, r) ==
    Outcome(IF bs = <<>> THEN None ELSE 1, c, m)

select_from_all(strat, bs, tok, c, m, r) ==
    Dispatch(strat, bs, all_backends(bs), tok, c, m, r)

select_backend(strat, bs, tok, c, m, r) ==
    IF healthy_backends(bs) = <<>>
    THEN select_from_all(strat, bs, tok, c, m, r)
    ELSE Dispatch(strat, bs, healthy_backends(bs), tok, c, m, r)

\* The candidate list the strategy runs over, which bounds random's draw.
Candidates(bs) ==
    IF healthy_backends(bs) = <<>> THEN all_backends(bs) ELSE healthy_backends(bs)

RandomDraws(strat, bs) ==
    IF strat = "Random" /\ bs # <<>> THEN 0..(Len(Candidates(bs)) - 1) ELSE {0}

-----------------------------------------------------------------------------
(* health_check.rs: what one probe does to the backend it probed. *)

StatusCodes == {200, 204, 500}

\* client.get(&url).send().await: Ok(response) with a status, or Err for a
\* transport error or the client's timeout.
ProbeOutcomes ==
    {[kind |-> "ok", status |-> s] : s \in StatusCodes}
      \cup {[kind |-> "error", status |-> 0], [kind |-> "timeout", status |-> 0]}

\* config.success_codes.contains(&response.status().as_u16())
is_healthy(o, cfg) == o.status \in cfg.success_codes

\* Mutation: the Ok arm records the time only when the flag flips.
ProbeOk_onflip(b, o, cfg, t) ==
    IF b.healthy # is_healthy(o, cfg)
    THEN [b EXCEPT !.healthy = is_healthy(o, cfg), !.last_checked = t]
    ELSE b

ProbeOk(b, o, cfg, t) ==
    [b EXCEPT !.healthy = IF b.healthy # is_healthy(o, cfg)
                          THEN is_healthy(o, cfg) ELSE b.healthy,
              !.last_checked = t]

\* Mutation: the Err arm records the time only.
ProbeErr_keep(b, t) == [b EXCEPT !.last_checked = t]

ProbeErr(b, t) ==
    [b EXCEPT !.healthy = IF b.healthy THEN FALSE ELSE b.healthy,
              !.last_checked = t]

\* Mutation: a backend found unhealthy is also taken out of the weights.
probe_update_drain(b, o, cfg, t) ==
    LET p == IF o.kind = "ok" THEN ProbeOk(b, o, cfg, t) ELSE ProbeErr(b, t)
    IN  IF p.healthy THEN p ELSE [p EXCEPT !.weight = 0]

probe_update(b, o, cfg, t) ==
    IF o.kind = "ok" THEN ProbeOk(b, o, cfg, t) ELSE ProbeErr(b, t)

-----------------------------------------------------------------------------
(* config.rs and ssl_watcher.rs: the TLS material on disk, its generation   *)
(* and the expiry check.  A certificate file is absent, unreadable, not a   *)
(* certificate ("garbage"), or a certificate ("ok") whose not-after prints  *)
(* as openssl prints a time ("gmt", "Jan  1 00:00:00 2026 GMT") or as it    *)
(* prints an invalid one ("bad", "Bad time value"); rem is the time from    *)
(* now to not-after in hours.                                               *)

ToUpper(c) ==
    CASE c = "o" -> "O" [] c = "n" -> "N" [] c = "f" -> "F" [] OTHER -> c

\* str::to_uppercase
to_uppercase(str) == [i \in 1..Len(str) |-> ToUpper(str[i])]

\* env::var("SSL").unwrap_or_else(|_| "OFF").to_uppercase() == "ON"
SslOn(e) ==
    to_uppercase(IF e.set THEN e.val ELSE <<"O", "F", "F">>) = <<"O", "N">>

CertFile(kind, date, rem) == [kind |-> kind, date |-> date, rem |-> rem]

AbsentCert == CertFile("absent", "none", 0)

\* Mutation: the certificate path is taken to exist.
CertExists_always(cert) == TRUE

\* Path::exists on ssl/server.pem and ssl/server.key.
CertExists(cert) == cert.kind # "absent"
KeyExists(key) == key # "absent"

\* X509::from_pem and openssl x509 -noout accept the file.
X509Parses(cert) == cert.kind = "ok"

\* The certificate openssl req writes: not-after is ValidityDays from now.
FreshCert == CertFile("ok", "gmt", ValidityDays * HoursPerDay)

\* Result of a spawned command: exit status success ("ok"), another exit
\* status ("status"), or the command could not be run ("err").
StepResults == {"ok", "status", "err"}

\* One run of generate_ssl as the environment lets it go; a step that the
\* run does not reach is "skipped".  The two checks of verify_ssl_files
\* report "invalid" when the written file does not parse.
GenRun(mk, rq, pm, kc, cc) ==
    [mkdir |-> mk,
     req |-> IF mk = "ok" THEN rq ELSE "skipped",
     perm |-> IF mk = "ok" /\ rq = "ok" THEN pm ELSE "skipped",
     key_check |-> IF mk = "ok" /\ rq = "ok" THEN kc ELSE "skipped",
     cert_check |-> IF mk = "ok" /\ rq = "ok" /\ kc = "ok" THEN cc ELSE "skipped"]

GenRuns ==
    {GenRun(mk, rq, pm, kc, cc) :
        mk \in StepResults, rq \in StepResults, pm \in {"ok", "err"},
        kc \in {"ok", "invalid", "err"}, cc \in {"ok", "invalid", "err"}}

\* The files a run leaves: openssl req writes both once it succeeds.
WrittenKey(g, key) ==
    IF g.req # "ok" THEN key
    ELSE IF g.key_check = "invalid" THEN "garbage" ELSE "ok"

WrittenCert(g, cert) ==
    IF g.req # "ok" THEN cert
    ELSE IF g.cert_check = "invalid" THEN CertFile("garbage", "none", 0)
    ELSE FreshCert

\* Mutation: only the private key is verified.
verify_ssl_files_keyonly(g) ==
    IF g.key_check = "err" THEN "Failed to verify private key"
    ELSE IF g.key_check = "invalid" THEN "Private key is invalid"
    ELSE "Ok"

\* verify_ssl_files: Ok(()) or the Err message.
verify_ssl_files(g) ==
    IF g.key_check = "err" THEN "Failed to verify private key"
    ELSE IF g.key_check = "invalid" THEN "Private key is invalid"
    ELSE IF g.cert_check = "err" THEN "Failed to verify certificate"
    ELSE IF g.cert_check = "invalid" THEN "Certificate is invalid"
    ELSE "Ok"

GenerateSslStatus(status, error) == [status |-> status, error |-> error]

\* generate_ssl: a failed set_permissions is only logged.
generate_ssl(g) ==
    IF g.mkdir = "status"
    THEN GenerateSslStatus("Error", "mkdir failed with status")
    ELSE IF g.mkdir = "err"
    THEN GenerateSslStatus("Error", "Failed to create ssl directory")
    ELSE IF g.req = "status"
    THEN GenerateSslStatus("Error", "openssl req failed with status")
    ELSE IF g.req = "err"
    THEN GenerateSslStatus("Error", "Failed to run openssl req")
    ELSE IF verify_ssl_files(g) # "Ok"
    THEN GenerateSslStatus("Error", "Generated SSL files are invalid")
    ELSE GenerateSslStatus("Success", "")

\* One run of generate_cert (generate_ssl.rs), which no other file calls:
\* create_dir_all, Certificate::from_params, the two fs::write and
\* set_permissions, each Ok or Err.
CertRuns ==
    [dir : {"ok", "err"}, params : {"ok", "err"}, write_key : {"ok", "err"},
     write_cert : {"ok", "err"}, perm : {"ok", "err"}]

\* generate_cert: it has no verification step.
generate_cert(g) ==
    IF g.dir = "err"
    THEN GenerateSslStatus("Error", "Failed to create ssl directory")
    ELSE IF g.params = "err"
    THEN GenerateSslStatus("Error", "Failed to generate certificate")
    ELSE IF g.write_key = "err"
    THEN GenerateSslStatus("Error", "Failed to write private key")
    ELSE IF g.write_cert = "err"
    THEN GenerateSslStatus("Error", "Failed to write certificate")
    ELSE GenerateSslStatus("Success", "")

\* The parse of cert.not_after().to_string(): a string that ends with
\* " GMT" goes through NaiveDateTime::parse_from_str with the two naive
\* formats; any other string is left to DateTime::parse_from_str, which
\* needs an offset in the input and so fails on all four formats.
EndsWithGMT(date) == date = "gmt"

ParsesNotAfter(date) ==
    IF EndsWithGMT(date) THEN date = "gmt" ELSE FALSE

\* Duration::num_days(): whole days, truncated toward zero.
num_days(hours) ==
    IF hours >= 0 THEN hours \div HoursPerDay ELSE -((-hours) \div HoursPerDay)

SslWatcher(is_good, day_left, error) ==
    [checked |-> TRUE, is_good |-> is_good, day_left |-> day_left,
     error |-> error]

\* Mutation: a not-after that does not parse is reported as good.
check_cert_lenient(cert) ==
    IF cert.kind \in {"absent", "unreadable"}
    THEN SslWatcher(FALSE, -1, "Failed to read cert")
    ELSE IF ~X509Parses(cert)
    THEN SslWatcher(FALSE, -1, "Failed to parse cert")
    ELSE IF ~ParsesNotAfter(cert.date)
    THEN SslWatcher(TRUE, 0, "")
    ELSE SslWatcher(TRUE, num_days(cert.rem), "")

check_cert(cert) ==
    IF cert.kind \in {"absent", "unreadable"}
    THEN SslWatcher(FALSE, -1, "Failed to read cert")
    ELSE IF ~X509Parses(cert)
    THEN SslWatcher(FALSE, -1, "Failed to parse cert")
    ELSE IF ~ParsesNotAfter(cert.date)
    THEN SslWatcher(FALSE, -1, "Failed to parse not_after time")
    ELSE SslWatcher(TRUE, num_days(cert.rem), "")

NoCheck == [checked |-> FALSE, is_good |-> FALSE, day_left |-> 0, error |-> ""]

\* The request tasks that may be inside upstream_peer together.
Tasks == {1, 2}

\* A task that is not inside upstream_peer.
NoSel ==
    [pc |-> "idle", tok |-> NoToken, miss |-> FALSE, backend_index |-> 0,
     res |-> None]

\* No listener has read the files.
NotLoaded == [loaded |-> FALSE, key |-> 0, cert |-> 0]

NoGen ==
    [called |-> FALSE,
     run |-> [mkdir |-> "skipped", req |-> "skipped", perm |-> "skipped",
              key_check |-> "skipped", cert_check |-> "skipped"],
     status |-> "none", error |-> ""]

-----------------------------------------------------------------------------
(* Inputs. *)

Tokens == {"t1", "t2"}

Ent2(h, p) == h \o <<":">> \o p
Ent3(h, p, w) == h \o <<":">> \o p \o <<":">> \o w

P80 == <<"8", "0">>
P81 == <<"8", "1">>
P82 == <<"8", "2">>

\* Entries a BACKENDS value is built from: well-formed ones with and
\* without a weight, and ones with a missing or unparseable port.
LoadEntries ==
    {Ent2(<<"a">>, P80), <<"a">>, <<>>,
     Ent3(<<"a">>, <<"x">>, <<"1">>),
     Ent3(<<"a">>, <<>>, <<"1">>),
     Ent3(<<"a">>, <<"7", "0", "0", "0", "0">>, <<"1">>),
     Ent3(<<"a">>, P80, <<"5">>) \o <<":", "9">>}
      \cup {Ent3(<<"a">>, P80, w) :
               w \in {<<"0">>, <<"1">>, <<"3", "0">>, <<"5", "0">>,
                      <<"7", "0">>, <<"1", "0", "0">>, <<"x">>}}

RECURSIVE Join(_)
Join(l) ==
    IF l = <<>> THEN <<>>
    ELSE IF Len(l) = 1 THEN l[1]
    ELSE l[1] \o <<",">> \o Join(Tail(l))

EnvLoad ==
    {[set |-> FALSE, val |-> <<>>]}
      \cup {[set |-> TRUE, val |-> Join(l)] :
               l \in UNION {[1..n -> LoadEntries] : n \in 0..MaxEntries}}

EnvOf(l) == [set |-> TRUE, val |-> Join(l)]

EnvRun ==
    {EnvOf(<<Ent3(<<"a">>, P80, <<"1">>), Ent3(<<"b">>, P81, <<"1", "9", "9">>)>>),
     EnvOf(<<Ent2(<<"a">>, P80), Ent2(<<"b">>, P81), Ent2(<<"c">>, P82)>>),
     EnvOf(<<Ent2(<<"x">>, <<"9", "0", "0", "0">>)>>),
     EnvOf(<<Ent3(<<"a">>, P80, <<"0">>), Ent3(<<"b">>, P81, <<"0">>)>>)}

EnvWindow ==
    {EnvOf(<<Ent3(<<"a">>, P80, <<"7", "0">>), Ent3(<<"b">>, P81, <<"3", "0">>)>>),
     EnvOf(<<Ent2(<<"a">>, P80), Ent2(<<"b">>, P81), Ent2(<<"c">>, P82)>>),
     EnvOf(<<Ent2(<<"a">>, P80), Ent2(<<"b">>, P81)>>),
     EnvOf(<<Ent3(<<"a">>, P80, <<"2", "0">>), Ent3(<<"b">>, P81, <<"3", "0">>),
             Ent3(<<"c">>, P82, <<"5", "0">>)>>)}

Configs ==
    {[enabled |-> TRUE, success_codes |-> sc] : sc \in {{200}, {200, 204}}}
      \cup {[enabled |-> FALSE, success_codes |-> {200}]}

\* Values of SSL: unset, the spellings of ON, and others.
SslEnvs ==
    {[set |-> FALSE, val |-> <<>>],
     [set |-> TRUE, val |-> <<"O", "N">>],
     [set |-> TRUE, val |-> <<"o", "n">>],
     [set |-> TRUE, val |-> <<"O", "F", "F">>],
     [set |-> TRUE, val |-> <<"1">>]}

\* Hours to not-after of the certificates found on disk at startup.
CertHours == {-30, -12, 12, 30, 60}

CertFiles ==
    {AbsentCert, CertFile("unreadable", "none", 0), CertFile("garbage", "none", 0),
     CertFile("ok", "bad", 0)}
      \cup {CertFile("ok", "gmt", h) : h \in CertHours}

KeyFiles == {"absent", "garbage", "ok"}

NoCall ==
    [called |-> FALSE, healthy |-> <<>>, tok |-> NoToken, counter |-> 0,
     session_map |-> [t \in {} |-> 0], res |-> None]

NoProbe ==
    [probed |-> FALSE, i |-> 0, outcome |-> [kind |-> "none", status |-> 0],
     at |-> NoTime]

-----------------------------------------------------------------------------
(* main: load the registry, start the health monitor, probe the upstreams *)
(* once, then serve.                                                       *)

InitFrom(pc, envs, strategies, configs) ==
    /\ env \in envs
    /\ strategy \in strategies
    /\ config \in configs
    /\ main_pc = pc
    /\ probe_i = 0
    /\ backends = <<>>
    /\ lock_w = "none"
    /\ lock_r = {}
    /\ counter = 0
    /\ session_map = [t \in {} |-> 0]
    /\ hc_pc = "unborn"
    /\ hc_i = 0
    /\ now = 0
    /\ req_pc = "idle"
    /\ req_cookie = NoToken
    /\ ctx = NoToken
    /\ set_cookie = NoToken
    /\ calls = 0
    /\ last = NoCall
    /\ run = <<>>
    /\ bound_to = [t \in Tokens |-> None]
    /\ bound_flip = [t \in Tokens |-> FALSE]
    /\ last_probe = NoProbe
    /\ day_cert = NoCheck
    /\ gen = NoGen
    /\ tls_gen = [key |-> 0, cert |-> 0]
    /\ tls_loaded = NotLoaded
    /\ sel = [r \in Tasks |-> NoSel]

\* main at load_backends: is_ssl_enabled has returned with SSL off and
\* both files in place.
InitWith(envs, strategies, configs) ==
    /\ InitFrom("load", envs, strategies, configs)
    /\ ssl_env = [set |-> FALSE, val |-> <<>>]
    /\ cert_file = FreshCert
    /\ key_file = "ok"
    /\ ssl_status = FALSE

\* is_ssl_enabled: with SSL on and a file missing generate_ssl runs and
\* anything but Success ends the process; then a missing file ends the
\* process whatever SSL says.  Back in main, ssl.status sends it into the
\* certificate loop.
IsSslEnabled ==
    /\ main_pc = "ssl"
    /\ IF SslOn(ssl_env) /\ (~CertExists(cert_file) \/ ~KeyExists(key_file))
       THEN \E g \in GenRuns :
               LET gen_ssl == generate_ssl(g)
                   cert == WrittenCert(g, cert_file)
                   key == WrittenKey(g, key_file)
               IN  /\ gen' = [called |-> TRUE, run |-> g,
                              status |-> gen_ssl.status, error |-> gen_ssl.error]
                   /\ cert_file' = cert
                   /\ key_file' = key
                   /\ tls_gen' = IF g.req = "ok"
                                 THEN [key |-> tls_gen.key + 1,
                                       cert |-> tls_gen.cert + 1]
                                 ELSE tls_gen
                   /\ IF gen_ssl.status # "Success"
                         \/ ~CertExists(cert) \/ ~KeyExists(key)
                      THEN main_pc' = "exited" /\ ssl_status' = ssl_status
                      ELSE main_pc' = "watch" /\ ssl_status' = TRUE
       ELSE /\ UNCHANGED <<gen, cert_file, key_file, tls_gen>>
            /\ IF ~CertExists(cert_file) \/ ~KeyExists(key_file)
               THEN main_pc' = "exited" /\ ssl_status' = ssl_status
               ELSE /\ ssl_status' = SslOn(ssl_env)
                    /\ main_pc' = IF SslOn(ssl_env) THEN "watch" ELSE "load"
    /\ UNCHANGED <<sel, ssl_env, day_cert, tls_loaded, env, strategy, config, probe_i,
                   backends, lock_w, lock_r, counter, session_map, hc_pc,
                   hc_i, now, req_pc, req_cookie, ctx, set_cookie, calls,
                   last, run, bound_to, bound_flip, last_probe>>

\* One iteration of main's certificate loop up to its sleep: check_cert,
\* process::exit(1) unless is_good, and the if on day_left <= 1, whose
\* body is empty.
CheckCert ==
    /\ main_pc = "watch"
    /\ day_cert' = check_cert(cert_file)
    /\ main_pc' = IF ~day_cert'.is_good THEN "exited" ELSE "watch_sleep"
    /\ UNCHANGED <<sel, ssl_env, cert_file, key_file, ssl_status, gen, tls_gen,
                   tls_loaded, env,
                   strategy, config, probe_i, backends, lock_w, lock_r,
                   counter, session_map, hc_pc, hc_i, now, req_pc,
                   req_cookie, ctx, set_cookie, calls, last, run, bound_to,
                   bound_flip, last_probe>>

\* thread::sleep of 24 hours, then the loop starts over: not-after comes
\* SleepHours closer, or falls further behind.
WatchSleep ==
    /\ main_pc = "watch_sleep"
    /\ cert_file' = [cert_file EXCEPT !.rem =
                        IF cert_file.rem - SleepHours < -(MaxPastDays * HoursPerDay)
                        THEN -(MaxPastDays * HoursPerDay)
                        ELSE cert_file.rem - SleepHours]
    /\ main_pc' = "watch"
    /\ UNCHANGED <<sel, ssl_env, key_file, ssl_status, day_cert, gen, tls_gen,
                   tls_loaded, env,
                   strategy, config, probe_i, backends, lock_w, lock_r,
                   counter, session_map, hc_pc, hc_i, now, req_pc,
                   req_cookie, ctx, set_cookie, calls, last, run, bound_to,
                   bound_flip, last_probe>>

\* The generate_ssl call of is_ssl_enabled as the file system shows it to
\* another process, first part: mkdir succeeded, openssl req was started
\* and has written -keyout ssl/server.key in place; -out is still to come.
GenerateSslKeyout ==
    /\ main_pc = "ssl"
    /\ SslOn(ssl_env)
    /\ ~CertExists(cert_file) \/ ~KeyExists(key_file)
    /\ key_file' \in {"ok", "garbage"}
    /\ tls_gen' = [tls_gen EXCEPT !.key = @ + 1]
    /\ main_pc' = "ssl_req"
    /\ UNCHANGED <<sel, ssl_env, cert_file, ssl_status, day_cert, gen, tls_loaded,
                   env, strategy, config, probe_i, backends, lock_w, lock_r,
                   counter, session_map, hc_pc, hc_i, now, req_pc,
                   req_cookie, ctx, set_cookie, calls, last, run, bound_to,
                   bound_flip, last_probe>>

\* Second part: openssl req writes -out ssl/server.pem in place and exits
\* with success, or exits with another status and leaves the certificate
\* as it was; then set_permissions, verify_ssl_files and the exits of
\* is_ssl_enabled as in IsSslEnabled.
GenerateSslOut ==
    /\ main_pc = "ssl_req"
    /\ \E g \in GenRuns :
          LET gen_ssl == generate_ssl(g)
              cert == WrittenCert(g, cert_file)
          IN  /\ g.mkdir = "ok"
              /\ g.req \in {"ok", "status"}
              /\ g.req = "ok" => WrittenKey(g, key_file) = key_file
              /\ gen' = [called |-> TRUE, run |-> g,
                         status |-> gen_ssl.status, error |-> gen_ssl.error]
              /\ cert_file' = cert
              /\ tls_gen' = IF g.req = "ok"
                            THEN [tls_gen EXCEPT !.cert = @ + 1]
                            ELSE tls_gen
              /\ IF gen_ssl.status # "Success"
                    \/ ~CertExists(cert) \/ ~KeyExists(key_file)
                 THEN main_pc' = "exited" /\ ssl_status' = ssl_status
                 ELSE main_pc' = "watch" /\ ssl_status' = TRUE
    /\ UNCHANGED <<sel, ssl_env, key_file, day_cert, tls_loaded, env, strategy,
                   config, probe_i, backends, lock_w, lock_r, counter,
                   session_map, hc_pc, hc_i, now, req_pc, req_cookie, ctx,
                   set_cookie, calls, last, run, bound_to, bound_flip,
                   last_probe>>

\* A TLS listener is set up from the two paths (main.rs, started over the
\* same ssl directory): with SSL on and both files in place add_tls loads
\* the certificate and the key that are on disk at that moment.
AddTls ==
    /\ SslOn(ssl_env)
    /\ CertExists(cert_file)
    /\ KeyExists(key_file)
    /\ ~tls_loaded.loaded
    /\ tls_loaded' = [loaded |-> TRUE, key |-> tls_gen.key,
                      cert |-> tls_gen.cert]
    /\ UNCHANGED <<sel, ssl_env, cert_file, key_file, ssl_status, day_cert, gen,
                   tls_gen, env, strategy, config, main_pc, probe_i,
                   backends, lock_w, lock_r, counter, session_map, hc_pc,
                   hc_i, now, req_pc, req_cookie, ctx, set_cookie, calls,
                   last, run, bound_to, bound_flip, last_probe>>

\* let backends = load_backends(); a panic ends the process.
LoadBackends ==
    /\ main_pc = "load"
    /\ LET r == load_backends(env)
       IN  /\ main_pc' = IF r.panic THEN "panicked" ELSE "spawn"
           /\ backends' = r.backends
    /\ UNCHANGED <<sel, cert_vars, env, strategy, config, probe_i, lock_w, lock_r, counter,
                   session_map, hc_pc, hc_i, now, req_pc, req_cookie, ctx,
                   set_cookie, calls, last, run, bound_to, bound_flip,
                   last_probe>>

\* The same step of main.rs, which has a load_backends of its own.
MainRsLoadBackends ==
    /\ main_pc = "load"
    /\ LET r == main_load_backends(env)
       IN  /\ main_pc' = IF r.panic THEN "mainrs_panicked" ELSE "mainrs_loaded"
           /\ backends' = r.backends
    /\ UNCHANGED <<sel, cert_vars, env, strategy, config, probe_i, lock_w, lock_r, counter,
                   session_map, hc_pc, hc_i, now, req_pc, req_cookie, ctx,
                   set_cookie, calls, last, run, bound_to, bound_flip,
                   last_probe>>

\* std::thread::spawn of the health monitor.
SpawnHealth ==
    /\ main_pc = "spawn"
    /\ main_pc' = "probe_lock"
    /\ hc_pc' = "start"
    /\ UNCHANGED <<sel, cert_vars, env, strategy, config, probe_i, backends, lock_w, lock_r,
                   counter, session_map, hc_i, now, req_pc, req_cookie, ctx,
                   set_cookie, calls, last, run, bound_to, bound_flip,
                   last_probe>>

\* shared_backends.blocking_read(): the guard lives for the whole for loop.
ProbeLock ==
    /\ main_pc = "probe_lock"
    /\ lock_w = "none"
    /\ lock_r' = lock_r \cup {"main"}
    /\ probe_i' = 1
    /\ main_pc' = "probe"
    /\ UNCHANGED <<sel, cert_vars, env, strategy, config, backends, lock_w, counter,
                   session_map, hc_pc, hc_i, now, req_pc, req_cookie, ctx,
                   set_cookie, calls, last, run, bound_to, bound_flip,
                   last_probe>>

\* TcpStream::connect to the backend at probe_i: Ok moves on, Err goes for
\* the write lock.
ProbeConnect ==
    /\ main_pc = "probe"
    /\ probe_i <= Len(backends)
    /\ \E ok \in BOOLEAN :
          IF ok
          THEN probe_i' = probe_i + 1 /\ main_pc' = main_pc
          ELSE probe_i' = probe_i /\ main_pc' = "probe_write"
    /\ UNCHANGED <<sel, cert_vars, env, strategy, config, backends, lock_w, lock_r, counter,
                   session_map, hc_pc, hc_i, now, req_pc, req_cookie, ctx,
                   set_cookie, calls, last, run, bound_to, bound_flip,
                   last_probe>>

\* The index find(|be| be.host == b.host && be.port == b.port) yields.
RECURSIVE FindBackend(_, _, _, _)
FindBackend(bs, host, port, i) ==
    IF i > Len(bs) THEN None
    ELSE IF bs[i].host = host /\ bs[i].port = port THEN i
    ELSE FindBackend(bs, host, port, i + 1)

\* shared_backends.blocking_write() in the Err arm, then healthy = false.
\* The write lock is granted only when no guard is held; main still holds
\* its read guard here, so this step is never enabled and main stays at
\* "probe_write".  It is therefore no disjunct of the next-state relations.
ProbeMarkUnhealthy ==
    /\ main_pc = "probe_write"
    /\ lock_w = "none"
    /\ lock_r = {}
    /\ LET b == backends[probe_i]
           j == FindBackend(backends, b.host, b.port, 1)
       IN  backends' = [backends EXCEPT ![j].healthy = FALSE]
    /\ probe_i' = probe_i + 1
    /\ main_pc' = "probe"
    /\ UNCHANGED <<sel, cert_vars, env, strategy, config, lock_w, lock_r, counter,
                   session_map, hc_pc, hc_i, now, req_pc, req_cookie, ctx,
                   set_cookie, calls, last, run, bound_to, bound_flip,
                   last_probe>>

\* End of the loop: the read guard is dropped; the server is built and
\* run_forever starts serving.
ProbeDone ==
    /\ main_pc = "probe"
    /\ probe_i > Len(backends)
    /\ lock_r' = lock_r \ {"main"}
    /\ main_pc' = "serving"
    /\ UNCHANGED <<sel, cert_vars, env, strategy, config, probe_i, backends, lock_w, counter,
                   session_map, hc_pc, hc_i, now, req_pc, req_cookie, ctx,
                   set_cookie, calls, last, run, bound_to, bound_flip,
                   last_probe>>

-----------------------------------------------------------------------------
(* health_check.rs: health_check_loop. *)

\* Mutation: the loop starts whatever config.enabled says.
HcStart_always ==
    /\ hc_pc = "start"
    /\ hc_pc' = "sleep"
    /\ UNCHANGED <<sel, cert_vars, env, strategy, config, main_pc, probe_i, backends, lock_w,
                   lock_r, counter, session_map, hc_i, now, req_pc,
                   req_cookie, ctx, set_cookie, calls, last, run, bound_to,
                   bound_flip, last_probe>>

\* if !config.enabled { return; }
HcStart ==
    /\ hc_pc = "start"
    /\ hc_pc' = IF config.enabled THEN "sleep" ELSE "done"
    /\ UNCHANGED <<sel, cert_vars, env, strategy, config, main_pc, probe_i, backends, lock_w,
                   lock_r, counter, session_map, hc_i, now, req_pc,
                   req_cookie, ctx, set_cookie, calls, last, run, bound_to,
                   bound_flip, last_probe>>

\* tokio::time::sleep(interval).await: one interval passes on the clock.
HcSleep ==
    /\ hc_pc = "sleep"
    /\ now < MaxTicks
    /\ now' = now + 1
    /\ hc_pc' = "acquire"
    /\ UNCHANGED <<sel, cert_vars, env, strategy, config, main_pc, probe_i, backends, lock_w,
                   lock_r, counter, session_map, hc_i, req_pc, req_cookie,
                   ctx, set_cookie, calls, last, run, bound_to, bound_flip,
                   last_probe>>

\* backends.write().await: granted when no guard is held.
HcAcquire ==
    /\ hc_pc = "acquire"
    /\ lock_w = "none"
    /\ lock_r = {}
    /\ lock_w' = "hc"
    /\ hc_i' = 1
    /\ hc_pc' = "probe"
    /\ UNCHANGED <<sel, cert_vars, env, strategy, config, main_pc, probe_i, backends, lock_r,
                   counter, session_map, now, req_pc, req_cookie, ctx,
                   set_cookie, calls, last, run, bound_to, bound_flip,
                   last_probe>>

\* One iteration of the for loop: the GET and the match on its result.  In
\* the state this step leaves from, the GET to backend hc_i is in flight
\* (client.get(&url).send().await) under the write guard taken by HcAcquire.
HcProbe ==
    /\ hc_pc = "probe"
    /\ hc_i <= Len(backends)
    /\ \E o \in ProbeOutcomes :
          LET b == probe_update(backends[hc_i], o, config, now)
              flipped == b.healthy # backends[hc_i].healthy
          IN  /\ backends' = [backends EXCEPT ![hc_i] = b]
              /\ last_probe' = [probed |-> TRUE, i |-> hc_i, outcome |-> o,
                                at |-> now]
              /\ run' = IF flipped THEN <<>> ELSE run
              /\ bound_flip' = [t \in Tokens |->
                                   bound_flip[t] \/ (flipped /\ bound_to[t] = hc_i)]
    /\ hc_i' = hc_i + 1
    /\ UNCHANGED <<sel, cert_vars, env, strategy, config, main_pc, probe_i, lock_w, lock_r,
                   counter, session_map, hc_pc, now, req_pc, req_cookie, ctx,
                   set_cookie, calls, last, bound_to>>

\* End of the for loop: the write guard is dropped and the loop sleeps again.
HcRelease ==
    /\ hc_pc = "probe"
    /\ hc_i > Len(backends)
    /\ lock_w' = "none"
    /\ hc_pc' = "sleep"
    /\ last_probe' = NoProbe
    /\ UNCHANGED <<sel, cert_vars, env, strategy, config, main_pc, probe_i, backends, lock_r,
                   counter, session_map, hc_i, now, req_pc, req_cookie, ctx,
                   set_cookie, calls, last, run, bound_to, bound_flip>>

-----------------------------------------------------------------------------
(* proxy.rs: the three hooks of one request. *)

\* LoadBalancer::generate_session_id(): a UUID no earlier token equals.
FreshTokens == Tokens \ DOMAIN session_map

\* request_filter: a request arrives with or without the affinity cookie,
\* its ctx None (new_ctx); under StickySession without a cookie, a new
\* session id is put in ctx.
RequestFilter(cookies, limit) ==
    /\ main_pc = "serving"
    /\ req_pc = "idle"
    /\ calls < limit
    /\ \E cookie \in cookies :
          /\ req_cookie' = cookie
          /\ IF strategy = "StickySession" /\ cookie = NoToken
             THEN \E t \in FreshTokens : ctx' = t
             ELSE ctx' = NoToken
    /\ req_pc' = "filtered"
    /\ UNCHANGED <<sel, cert_vars, env, strategy, config, main_pc, probe_i, backends, lock_w,
                   lock_r, counter, session_map, hc_pc, hc_i, now,
                   set_cookie, calls, last, run, bound_to, bound_flip,
                   last_probe>>

\* A request that arrives once the health monitor is asleep after its
\* last tick of the run: the health flags stay as that tick left them.
RequestFilterAfterTicks ==
    /\ hc_pc = "sleep"
    /\ now = MaxTicks
    /\ RequestFilter({NoToken}, MaxWindowCalls)

\* Mutation: the session id is handed over under every strategy.
SessionId_always == IF req_cookie # NoToken THEN req_cookie ELSE ctx

\* The session id upstream_peer hands to select_backend.
SessionId ==
    IF strategy = "StickySession"
    THEN (IF req_cookie # NoToken THEN req_cookie ELSE ctx)
    ELSE NoToken

HealthFlags(bs) == [i \in 1..Len(bs) |-> bs[i].healthy]

\* upstream_peer: takes the read lock, selects, and drops the lock.
UpstreamPeer ==
    /\ req_pc = "filtered"
    /\ lock_w = "none"
    /\ \E r \in RandomDraws(strategy, backends) :
          LET o == select_backend(strategy, backends, SessionId, counter,
                                  session_map, r)
          IN  /\ counter' = o.counter
              /\ session_map' = o.session_map
              /\ req_pc' = IF o.res = None THEN "failed" ELSE "routed"
              /\ last' = [called |-> TRUE, healthy |-> HealthFlags(backends),
                          tok |-> SessionId, counter |-> counter,
                          session_map |-> session_map, res |-> o.res]
              /\ run' = Append(run, o.res)
              /\ bound_to' = IF SessionId # NoToken /\ bound_to[SessionId] = None
                             THEN [bound_to EXCEPT ![SessionId] = o.res]
                             ELSE bound_to
    /\ calls' = calls + 1
    /\ UNCHANGED <<sel, cert_vars, env, strategy, config, main_pc, probe_i, backends, lock_w,
                   lock_r, hc_pc, hc_i, now, req_cookie, ctx, set_cookie,
                   bound_flip, last_probe>>

\* Mutation: the response is sent without the cookie.
ResponseFilter_nocookie ==
    /\ req_pc = "routed"
    /\ set_cookie' = NoToken
    /\ ctx' = NoToken
    /\ req_pc' = "idle"
    /\ req_cookie' = NoToken
    /\ last' = NoCall
    /\ UNCHANGED <<sel, cert_vars, env, strategy, config, main_pc, probe_i, backends, lock_w,
                   lock_r, counter, session_map, hc_pc, hc_i, now, calls,
                   run, bound_to, bound_flip, last_probe>>

\* response_filter: ctx.take() becomes the Set-Cookie of the response.
ResponseFilter ==
    /\ req_pc = "routed"
    /\ set_cookie' = ctx
    /\ ctx' = NoToken
    /\ req_pc' = "idle"
    /\ req_cookie' = NoToken
    /\ last' = NoCall
    /\ UNCHANGED <<sel, cert_vars, env, strategy, config, main_pc, probe_i, backends, lock_w,
                   lock_r, counter, session_map, hc_pc, hc_i, now, calls,
                   run, bound_to, bound_flip, last_probe>>

\* upstream_peer and sticky_session statement by statement, for request
\* tasks that run on several worker threads.  A task holds the registry
\* read lock from its first step to its last; the session map's read and
\* write locks are each held for one step.

StickyOthers ==
    <<cert_vars, env, strategy, config, main_pc, probe_i, backends, lock_w,
      lock_r, hc_pc, hc_i, now, req_pc, req_cookie, ctx, set_cookie, last,
      run, bound_to, bound_flip, last_probe>>

\* self.backends.read().await, then session_id from the request's cookie,
\* and into select_backend and sticky_session.
StickyEnter(r) ==
    /\ main_pc = "serving"
    /\ strategy = "StickySession"
    /\ lock_w = "none"
    /\ sel[r].pc = "idle"
    /\ calls < MaxCalls
    /\ \E tok \in Tokens :
          sel' = [sel EXCEPT ![r] = [NoSel EXCEPT !.pc = "lookup", !.tok = tok]]
    /\ calls' = calls + 1
    /\ UNCHANGED <<StickyOthers, counter, session_map>>

\* session_map.read(): the stored index is returned when it is there and
\* within the candidates; the read guard is dropped with the block.
StickyLookup(r) ==
    /\ sel[r].pc = "lookup"
    /\ LET cands == Candidates(backends)
       IN  sel' = [sel EXCEPT ![r] =
                     IF cands = <<>>
                     THEN [sel[r] EXCEPT !.pc = "done", !.res = None]
                     ELSE IF StickyHit(cands, session_map, sel[r].tok)
                     THEN [sel[r] EXCEPT
                              !.pc = "done",
                              !.res = cands[session_map[sel[r].tok] + 1]]
                     ELSE [sel[r] EXCEPT !.pc = "fetch_add", !.miss = TRUE]]
    /\ UNCHANGED <<StickyOthers, counter, session_map, calls>>

\* self.counter.fetch_add(1, Ordering::Relaxed) % backends.len()
StickyFetchAdd(r) ==
    /\ sel[r].pc = "fetch_add"
    /\ sel' = [sel EXCEPT ![r] =
                 [sel[r] EXCEPT
                     !.pc = "insert",
                     !.backend_index = counter % Len(Candidates(backends))]]
    /\ counter' = counter + 1
    /\ UNCHANGED <<StickyOthers, session_map, calls>>

\* session_map.write(): insert(session_id, backend_index), then
\* backends.get(backend_index) is the result.
StickyInsert(r) ==
    /\ sel[r].pc = "insert"
    /\ session_map' = SessionInsert(session_map, sel[r].tok, sel[r].backend_index)
    /\ sel' = [sel EXCEPT ![r] =
                 [sel[r] EXCEPT
                     !.pc = "done",
                     !.res = Candidates(backends)[sel[r].backend_index + 1]]]
    /\ UNCHANGED <<StickyOthers, counter, calls>>

\* upstream_peer returns the peer and the registry read guard is dropped.
StickyLeave(r) ==
    /\ sel[r].pc = "done"
    /\ sel' = [sel EXCEPT ![r] = NoSel]
    /\ UNCHANGED <<StickyOthers, counter, session_map, calls>>

-----------------------------------------------------------------------------
(* Specifications. *)

\* The proxy as main wires it: every strategy, every request.
Init == InitWith(EnvRun, Strategies, Configs)

Next ==
    \/ LoadBackends
    \/ SpawnHealth
    \/ ProbeLock
    \/ ProbeConnect
    \/ ProbeDone
    \/ HcStart
    \/ HcSleep
    \/ HcAcquire
    \/ HcProbe
    \/ HcRelease
    \/ RequestFilter(Tokens \cup {NoToken}, MaxCalls)
    \/ UpstreamPeer
    \/ ResponseFilter

Spec == Init /\ [][Next]_vars

\* The loader alone, over many BACKENDS values, for both load_backends.
InitLoad ==
    InitWith(EnvLoad, {"Weighted"}, {[enabled |-> TRUE, success_codes |-> {200}]})

NextLoad == LoadBackends \/ MainRsLoadBackends

SpecLoad == InitLoad /\ [][NextLoad]_vars

\* Long runs of selections under the counter-driven strategies, with the
\* health monitor disabled (HEALTH_CHECK_ENABLED=false) and requests that
\* carry no cookie, which these strategies do not read.
InitWindow ==
    InitWith(EnvWindow, {"RoundRobin", "Weighted", "LeastConnections"},
             {[enabled |-> FALSE, success_codes |-> {200}]})

NextWindow ==
    \/ LoadBackends
    \/ SpawnHealth
    \/ ProbeLock
    \/ ProbeConnect
    \/ ProbeDone
    \/ HcStart
    \/ RequestFilter({NoToken}, MaxWindowCalls)
    \/ UpstreamPeer
    \/ ResponseFilter

SpecWindow == InitWindow /\ [][NextWindow]_vars

\* main from its first line: the TLS material, the certificate loop, and
\* the startup that follows it when ssl.status is false.
InitCert ==
    /\ InitFrom("ssl", {EnvOf(<<Ent2(<<"a">>, P80), Ent2(<<"b">>, P81)>>)},
                {"RoundRobin"}, Configs)
    /\ ssl_env \in SslEnvs
    /\ cert_file \in CertFiles
    /\ key_file \in KeyFiles
    /\ ssl_status = FALSE

NextCert ==
    \/ IsSslEnabled
    \/ CheckCert
    \/ WatchSleep
    \/ LoadBackends
    \/ SpawnHealth
    \/ ProbeLock
    \/ ProbeConnect
    \/ ProbeDone
    \/ HcStart

SpecCert == InitCert /\ [][NextCert]_vars

\* The two threads are scheduled: a step of main or of the health monitor
\* that can be taken is taken.  load_backends is a step main can always
\* take when it stands at it, so its fairness is that main does not stand
\* there for ever.
CertFairness ==
    /\ WF_vars(IsSslEnabled)
    /\ WF_vars(CheckCert)
    /\ WF_vars(WatchSleep)
    /\ []<>(main_pc # "load")
    /\ WF_vars(SpawnHealth)
    /\ WF_vars(ProbeLock)
    /\ WF_vars(ProbeConnect)
    /\ WF_vars(ProbeDone)
    /\ WF_vars(HcStart)

SpecCertLive == SpecCert /\ CertFairness

\* The same start of main with the generation taken write by write, next
\* to a listener that loads the files of the same ssl directory.
InitRegen == InitCert

NextRegen ==
    \/ IsSslEnabled
    \/ CheckCert
    \/ WatchSleep
    \/ LoadBackends
    \/ SpawnHealth
    \/ ProbeLock
    \/ ProbeConnect
    \/ ProbeDone
    \/ HcStart
    \/ GenerateSslKeyout
    \/ GenerateSslOut
    \/ AddTls

SpecRegen == InitRegen /\ [][NextRegen]_vars

\* Weighted over the weights the health monitor's ticks leave healthy:
\* the monitor runs its ticks, then a window of selections is served.
InitDegraded ==
    InitWith(EnvWindow, {"Weighted"},
             {[enabled |-> TRUE, success_codes |-> {200}]})

NextDegraded ==
    \/ LoadBackends
    \/ SpawnHealth
    \/ ProbeLock
    \/ ProbeConnect
    \/ ProbeDone
    \/ HcStart
    \/ HcSleep
    \/ HcAcquire
    \/ HcProbe
    \/ HcRelease
    \/ RequestFilterAfterTicks
    \/ UpstreamPeer
    \/ ResponseFilter

SpecDegraded == InitDegraded /\ [][NextDegraded]_vars

\* StickySession with two request tasks inside upstream_peer at a time,
\* health monitor disabled: the candidates stay the same.
InitSticky ==
    InitWith(EnvRun, {"StickySession"},
             {[enabled |-> FALSE, success_codes |-> {200}]})

NextSticky ==
    \/ LoadBackends
    \/ SpawnHealth
    \/ ProbeLock
    \/ ProbeConnect
    \/ ProbeDone
    \/ HcStart
    \/ \E r \in Tasks : StickyEnter(r)
    \/ \E r \in Tasks : StickyLookup(r)
    \/ \E r \in Tasks : StickyFetchAdd(r)
    \/ \E r \in Tasks : StickyInsert(r)
    \/ \E r \in Tasks : StickyLeave(r)

SpecSticky == InitSticky /\ [][NextSticky]_vars

-----------------------------------------------------------------------------
(* Properties of the loader. *)

\* An entry as the configuration surface describes it, host:port[:weight]:
\* it has a port field and that field is a port number.
ValidEntry(entry) ==
    /\ Len(Split(entry, ":")) >= 2
    /\ ParseU16(Split(entry, ":")[2]) # -1

EnvEntries == IF env.set THEN Split(env.val, ",") ELSE <<>>

ValidEntries == SelectSeq(EnvEntries, ValidEntry)

\* load_backends has returned (either program's).
Loaded == main_pc \in {"spawn", "mainrs_loaded"}

\* load_backends has panicked (either program's).
Panicked == main_pc \in {"panicked", "mainrs_panicked"}

\* C1: after load_backends returns, the weights of the returned backends
\* sum to exactly 100, whatever the declared weights were.
C1_WeightsSumTo100 ==
    Loaded => SumWeights(backends) = WeightTotal

\* C2: a BACKENDS value with exactly one valid entry yields exactly one
\* backend, of weight 100, whatever weight the entry declared.
C2_SingleEntryWeight100 ==
    (main_pc = "spawn" /\ Len(ValidEntries) = 1)
        => (Len(backends) = 1 /\ backends[1].weight = WeightTotal)

\* C8: load_backends never returns an empty registry; with BACKENDS unset,
\* empty or without a valid entry it panics instead of returning.
C8_NeverEmptyRegistry ==
    /\ Loaded => backends # <<>>
    /\ (main_pc # "load" /\ Len(ValidEntries) = 0) => Panicked

\* C8's case: a non-empty BACKENDS value without a valid entry has made
\* load_backends panic.
C8_Witness ==
    /\ main_pc = "panicked"
    /\ env.set
    /\ env.val # <<>>

\* C9 as stated: load_backends never returns a registry for a BACKENDS
\* value that holds an entry with a missing or unparseable port.
C9_MalformedIsFatal ==
    main_pc = "spawn" => \A i \in 1..Len(EnvEntries) : ValidEntry(EnvEntries[i])

\* C9 as amended: load_backends panics only when no entry is valid; an
\* entry with a missing or unparseable port is skipped, and the registry
\* holds exactly one backend per valid entry, in the order of the list,
\* with that entry's host and port.
C9_MalformedSkipped ==
    /\ main_pc = "panicked" => Len(ValidEntries) = 0
    /\ main_pc = "spawn" =>
          /\ Len(backends) = Len(ValidEntries)
          /\ \A i \in 1..Len(backends) :
                /\ backends[i].host = Split(ValidEntries[i], ":")[1]
                /\ backends[i].port = ParseU16(Split(ValidEntries[i], ":")[2])

\* C9's case: load_backends has returned although an entry of the list
\* was malformed.
C9_Witness ==
    /\ main_pc = "spawn"
    /\ \E i \in 1..Len(EnvEntries) : ~ValidEntry(EnvEntries[i])
    /\ Len(backends) >= 2

-----------------------------------------------------------------------------
(* Properties of the selection engine. *)

HealthySet(flags) == {i \in 1..Len(flags) : flags[i]}

\* The k-th (from 0) smallest element of a set of registry positions.
Nth(S, k) == CHOOSE i \in S : Cardinality({j \in S : j < i}) = k

WeightBelow(S, i) ==
    LET below == {j \in S : j <= i}
        RECURSIVE Sum(_)
        Sum(T) == IF T = {} THEN 0
                  ELSE LET x == CHOOSE y \in T : TRUE
                       IN  backends[x].weight + Sum(T \ {x})
    IN  Sum(below)

\* The backends a strategy may pick among the candidates S from counter c,
\* session map m and token tok, as the design describes the strategies.
ExpectedPicks(strat, S, c, m, tok) ==
    LET n == Cardinality(S)
        rr == {Nth(S, c % n)}
        buckets == {i \in S : WeightBelow(S, i) > c % DrawModulus}
    IN  CASE strat \in {"RoundRobin", "LeastConnections"} -> rr
          [] strat = "Weighted" ->
                 IF WeightBelow(S, Nth(S, n - 1)) = 0 THEN rr
                 ELSE IF buckets = {} THEN {Nth(S, 0)}
                 ELSE {Nth(buckets, 0)}
          [] strat = "StickySession" ->
                 IF tok # NoToken /\ tok \in DOMAIN m /\ m[tok] < n
                 THEN {Nth(S, m[tok])}
                 ELSE rr
          [] strat = "Random" -> S

AllUnhealthy(flags) == flags # <<>> /\ HealthySet(flags) = {}

\* C3: select_backend returns a backend of the snapshot it was given
\* whenever that snapshot is non-empty, under every strategy, health flags
\* and token, so upstream_peer never reports a routing error; None comes
\* only from an empty snapshot.
C3_SelectReturnsMember ==
    /\ last.called => (last.res # None /\ last.res \in 1..Len(backends))
    /\ req_pc # "failed"
    /\ \A tok \in Tokens \cup {NoToken} :
          select_backend(strategy, <<>>, tok, counter, session_map, 0).res = None

\* C3's case: a StickySession selection with a token over a registry whose
\* backends are all unhealthy.
C3_Witness ==
    /\ last.called
    /\ strategy = "StickySession"
    /\ last.tok # NoToken
    /\ AllUnhealthy(last.healthy)
    /\ Len(backends) >= 2

\* C4: with every backend unhealthy select_backend still returns a
\* backend, the one the configured strategy picks over the full registry.
C4_FallbackToAll ==
    (last.called /\ AllUnhealthy(last.healthy)) =>
        /\ last.res # None
        /\ last.res \in ExpectedPicks(strategy, 1..Len(backends), last.counter,
                                      last.session_map, last.tok)

\* C4's case: every backend is unhealthy and the selection returned one
\* that is not the first of the registry.
C4_Witness ==
    /\ last.called
    /\ AllUnhealthy(last.healthy)
    /\ last.res >= 2

\* C5: under RoundRobin, while the healthy subset of size n does not
\* change, any n consecutive selections return every healthy backend
\* exactly once.
C5_RoundRobinCoversHealthy ==
    LET H == HealthySet(HealthFlags(backends))
        n == Cardinality(H)
    IN  (strategy = "RoundRobin" /\ n >= 1 /\ Len(run) >= n) =>
            {run[k] : k \in (Len(run) - n + 1)..Len(run)} = H

\* C5's case: two of three backends are healthy and at least two
\* selections were made since the flags last changed, from a counter that
\* had already advanced.
C5_Witness ==
    /\ strategy = "RoundRobin"
    /\ Len(backends) = 3
    /\ Cardinality(HealthySet(HealthFlags(backends))) = 2
    /\ Len(run) >= 2
    /\ counter > Len(run)

\* How often backend i was returned by the last DrawModulus selections.
SharesOf(i) ==
    Cardinality({k \in (Len(run) - DrawModulus + 1)..Len(run) : run[k] = i})

\* C6: under Weighted with all backends healthy and weights summing to
\* 100, any 100 consecutive selections return each backend exactly as
\* many times as its weight, each selection taking the first backend
\* whose cumulative weight exceeds the counter mod 100.
C6_WeightedExactShares ==
    (strategy = "Weighted" /\ SumWeights(backends) = WeightTotal)
        => /\ (/\ HealthySet(HealthFlags(backends)) = 1..Len(backends)
               /\ Len(run) >= DrawModulus) =>
                 \A i \in 1..Len(backends) : SharesOf(i) = backends[i].weight
           /\ (last.called /\ HealthySet(last.healthy) = 1..Len(backends)) =>
                 /\ WeightBelow(1..Len(backends), last.res) > last.counter % DrawModulus
                 /\ \A j \in 1..(last.res - 1) :
                       WeightBelow(1..Len(backends), j) <= last.counter % DrawModulus

\* C6's case: a window of 100 selections that started past counter 0,
\* over three healthy backends whose weights sum to 100.
C6_Witness ==
    /\ strategy = "Weighted"
    /\ Len(backends) = 3
    /\ SumWeights(backends) = WeightTotal
    /\ HealthySet(HealthFlags(backends)) = 1..Len(backends)
    /\ Len(run) > DrawModulus + 20
    /\ last.called

\* C7: under StickySession, once a selection with token T has returned
\* backend B, every later selection with T returns B as long as B's own
\* health flag has not changed (other backends' flags may have).
C7_StickyStaysOnBackend ==
    (/\ strategy = "StickySession"
     /\ last.called
     /\ last.tok # NoToken
     /\ bound_to[last.tok] # None
     /\ ~bound_flip[last.tok])
        => last.res = bound_to[last.tok]

-----------------------------------------------------------------------------
(* Properties of the health monitor. *)

\* C10: after a probe the backend's healthy flag says whether the probe
\* returned a response with a status in success_codes (false on an
\* excluded status, a transport error or a timeout), and the loop goes on
\* to the next backend.
C10_ProbeSetsHealth ==
    last_probe.probed =>
        /\ backends[last_probe.i].healthy
              = (/\ last_probe.outcome.kind = "ok"
                 /\ last_probe.outcome.status \in config.success_codes)
        /\ hc_pc = "probe"
        /\ hc_i = last_probe.i + 1

\* C10's case: a probe failed with a transport error or a timeout on a
\* backend that is not the last, and the loop stands at the next backend.
C10_Witness ==
    /\ last_probe.probed
    /\ last_probe.outcome.kind \in {"error", "timeout"}
    /\ hc_i <= Len(backends)
    /\ hc_pc = "probe"

\* A probe request of the health monitor is in flight.
ProbeInFlight == hc_pc = "probe" /\ hc_i <= Len(backends)

\* C11: every probe attempt sets the probed backend's last_checked to the
\* time of the attempt, whether it returned a success status, an excluded
\* status or a transport error, and whether or not the flag changed.
C11_LastCheckedEveryProbe ==
    last_probe.probed =>
        /\ last_probe.at = now
        /\ backends[last_probe.i].last_checked = last_probe.at

\* C11's case: in a second tick a probe failed on a backend that was
\* already unhealthy, so the flag did not change, and last_checked moved
\* from the first tick's time to this one's.
C11_Witness ==
    /\ last_probe.probed
    /\ last_probe.outcome.kind = "error"
    /\ now = 2
    /\ ~backends[last_probe.i].healthy
    /\ backends[last_probe.i].last_checked = 2

\* C12: with health checks disabled the monitor returns at once and for
\* good: it never probes, never holds the registry write lock, and every
\* backend keeps the healthy flag and the last_checked it was loaded with.
C12_DisabledMonitorIdle ==
    ~config.enabled =>
        /\ hc_pc \in {"unborn", "start", "done"}
        /\ lock_w # "hc"
        /\ ~last_probe.probed
        /\ \A i \in 1..Len(backends) :
              backends[i].healthy /\ backends[i].last_checked = NoTime

\* C12's case: the disabled monitor has returned and the proxy has served
\* requests since.
C12_Witness ==
    /\ ~config.enabled
    /\ hc_pc = "done"
    /\ main_pc = "serving"
    /\ calls >= 2

-----------------------------------------------------------------------------
(* Properties of the session map. *)

\* C19: a session-affinity entry is never removed: a token that is a key
\* of the session map is a key of it after every step, whatever
\* selections, health changes and passing of time follow.
C19_SessionEntriesPersist ==
    [][DOMAIN session_map \subseteq DOMAIN session_map']_vars

\* C19's case: a token's entry is still in the map after its backend's
\* health flag changed, the clock moved on, and a selection for another
\* token added a second entry.
C19_Witness ==
    /\ \E t \in DOMAIN session_map : bound_flip[t]
    /\ Cardinality(DOMAIN session_map) = 2
    /\ now = 2

-----------------------------------------------------------------------------
(* Properties of the registry lock. *)

\* C20: the health monitor does not hold the registry write lock while a
\* probe request is in flight, so a selection waiting for the read lock
\* can take it while the probe is out.
C20_NoWriteLockAcrossProbe ==
    ProbeInFlight =>
        /\ lock_w # "hc"
        /\ req_pc = "filtered" => ENABLED UpstreamPeer

-----------------------------------------------------------------------------
(* Properties of the certificate lifecycle. *)

\* The certificate on disk is one check_cert reads, parses and dates.
CertDated == cert_file.kind = "ok" /\ cert_file.date = "gmt"

\* C13: when the watcher's check reports a readable certificate with
\* day_left <= 1, the watcher generates a certificate and installs it
\* before it goes to sleep, so the material in place during the sleep is
\* the newly generated one.
C13_ExpiringCertRenewed ==
    (main_pc = "watch_sleep" /\ day_cert.is_good /\ day_cert.day_left <= 1)
        => (gen.called /\ cert_file = FreshCert)

\* C14: when check_cert cannot read the certificate file, cannot parse it
\* as a certificate or cannot parse its not-after, the watcher exits the
\* process in that iteration: it is never asleep, back at the check, or on
\* the way to serving after such a result.
C14_UnusableCertExits ==
    /\ (/\ day_cert.checked
        /\ \/ cert_file.kind \in {"unreadable", "garbage"}
           \/ cert_file.date = "bad")
          => (~day_cert.is_good /\ main_pc = "exited")
    /\ (day_cert.checked /\ ~day_cert.is_good) => main_pc = "exited"

\* C14's case: the watcher has exited on a certificate that reads and
\* parses but whose not-after does not.
C14_Witness ==
    /\ main_pc = "exited"
    /\ day_cert.checked
    /\ cert_file.kind = "ok"
    /\ cert_file.date = "bad"
    /\ SslOn(ssl_env)

\* C15: when check_cert yields a negative day_left for a certificate that
\* reads and parses, the watcher exits the process instead of going on
\* with its loop.
C15_ExpiredCertExits ==
    (day_cert.checked /\ CertDated /\ day_cert.day_left < 0)
        => main_pc = "exited"

\* C16: for a certificate whose not-after is earlier than now, by less
\* than a day or by more, check_cert reports a negative day_left and
\* is_good = false.
C16_PastNotAfterIsBad ==
    (/\ main_pc \in {"watch_sleep", "exited"}
     /\ day_cert.checked
     /\ CertDated
     /\ cert_file.rem < 0)
        => (day_cert.day_left < 0 /\ ~day_cert.is_good)

\* Every step of a generate_ssl run succeeded: the directory, the key and
\* certificate, and the verification of both written files.
AllStepsOk(g) ==
    /\ g.mkdir = "ok"
    /\ g.req = "ok"
    /\ g.key_check = "ok"
    /\ g.cert_check = "ok"

C18_SslStartupReachesServing ==
    (/\ ssl_status
     /\ main_pc = "watch"
     /\ CertDated
     /\ cert_file.rem > SleepHours)
        ~> (main_pc = "serving")

-----------------------------------------------------------------------------
(* Properties of the startup probe and of a tick seen from a selection. *)

\* C21: the startup connectivity probe never waits for the registry write
\* lock while it holds the read lock, where it would wait for ever, so it
\* ends for every combination of reachable and unreachable backends.
C21_ProbeNeverWaitsOnItself ==
    main_pc = "probe_write" => "main" \notin lock_r

\* A tick has written this tick's result to some backends and not yet to
\* the others.
MidTick == hc_pc = "probe" /\ 1 < hc_i /\ hc_i <= Len(backends)

\* C22: a selection that runs while a tick is under way can observe the
\* registry mid-tick, some backends carrying this tick's result and the
\* others the previous one's: a request waiting in upstream_peer gets the
\* read lock in such a state.
C22_SelectionSeesMidTick ==
    (MidTick /\ req_pc = "filtered") => ENABLED UpstreamPeer

-----------------------------------------------------------------------------
(* Properties of StickySession. *)

\* Number of candidates of a selection over a snapshot with these flags.
CandCount(flags) ==
    IF HealthySet(flags) = {} THEN Len(flags) ELSE Cardinality(HealthySet(flags))

\* The candidates of that selection, as registry positions.
CandSet(flags) ==
    IF HealthySet(flags) = {} THEN 1..Len(flags) ELSE HealthySet(flags)

\* C23: under StickySession, the index stored for a token is smaller than
\* the number of candidates of every later selection made with that
\* token, whatever health changes came in between.
C23_StoredIndexInRange ==
    (/\ strategy = "StickySession"
     /\ last.called
     /\ last.tok \in DOMAIN last.session_map)
        => last.session_map[last.tok] < CandCount(last.healthy)

\* C24: under StickySession, a selection with a token that has no usable
\* entry picks index = counter mod candidate count, advances the counter
\* by one, records token -> index and returns the candidate at that
\* index; one with a token that has a usable entry returns the candidate
\* at the stored index and changes neither the counter nor the map.
C24_StickyHitOrRegister ==
    (strategy = "StickySession" /\ last.called /\ last.tok # NoToken) =>
        LET S == CandSet(last.healthy)
            n == CandCount(last.healthy)
            m == last.session_map
            tok == last.tok
        IN  IF tok \in DOMAIN m /\ m[tok] < n
            THEN /\ last.res = Nth(S, m[tok])
                 /\ counter = last.counter
                 /\ session_map = m
            ELSE /\ last.res = Nth(S, last.counter % n)
                 /\ counter = last.counter + 1
                 /\ DOMAIN session_map = DOMAIN m \cup {tok}
                 /\ session_map[tok] = last.counter % n
                 /\ \A t \in DOMAIN m \ {tok} : session_map[t] = m[t]

\* C24's case: the token's entry was out of range for this selection's
\* candidates, so the selection picked by the counter and registered the
\* token again.
C24_Witness ==
    /\ strategy = "StickySession"
    /\ last.called
    /\ last.tok \in DOMAIN last.session_map
    /\ last.session_map[last.tok] >= CandCount(last.healthy)
    /\ last.counter >= 2
    /\ session_map[last.tok] = last.counter % CandCount(last.healthy)

-----------------------------------------------------------------------------
(* Properties of the counter-driven strategies. *)

\* The registry with every assignment of health flags.
Snapshots(bs) ==
    {[i \in 1..Len(bs) |-> [bs[i] EXCEPT !.healthy = f[i]]] :
        f \in [1..Len(bs) -> BOOLEAN]}

\* C27: LeastConnections cannot be told from RoundRobin: from the same
\* counter and over the same snapshot, whatever its health flags, the two
\* return the same backend and leave the same counter, so two balancers
\* started at counter 0 and fed the same snapshots agree at every step.
C27_LeastConnectionsIsRoundRobin ==
    /\ req_pc = "filtered" =>
          \A bs \in Snapshots(backends) :
              select_backend("LeastConnections", bs, NoToken, counter, session_map, 0)
                  = select_backend("RoundRobin", bs, NoToken, counter, session_map, 0)
    /\ (strategy = "LeastConnections" /\ last.called) =>
          /\ last.res = Nth(CandSet(last.healthy),
                            last.counter % CandCount(last.healthy))
          /\ counter = last.counter + 1

\* C27's case: a LeastConnections selection from an advanced counter over
\* a snapshot with healthy and unhealthy backends.
C27_Witness ==
    /\ strategy = "LeastConnections"
    /\ last.called
    /\ last.counter >= 1
    /\ HealthySet(last.healthy) # {}
    /\ HealthySet(last.healthy) # 1..Len(last.healthy)
    /\ last.res >= 2

\* C28: under Weighted, when the candidates' weights sum to 0 the
\* selection returns the candidate at counter mod candidate count and
\* advances the counter by exactly one, as RoundRobin does.
C28_ZeroWeightIsRoundRobin ==
    (/\ strategy = "Weighted"
     /\ last.called
     /\ \A i \in CandSet(last.healthy) : backends[i].weight = 0)
        => /\ last.res = Nth(CandSet(last.healthy),
                             last.counter % CandCount(last.healthy))
           /\ counter = last.counter + 1

\* C28's case: a Weighted selection over two candidates of weight 0, from
\* a counter that had advanced, returned the second.
C28_Witness ==
    /\ strategy = "Weighted"
    /\ last.called
    /\ CandCount(last.healthy) = 2
    /\ \A i \in 1..Len(backends) : backends[i].weight = 0
    /\ last.counter >= 1
    /\ last.res = 2

\* C30: whenever at least one backend of the snapshot is healthy, the
\* backend select_backend returns is healthy in that snapshot, under every
\* strategy, Weighted's fall-through to the first candidate and
\* StickySession's stored index included.
C30_ReturnsHealthy ==
    (last.called /\ HealthySet(last.healthy) # {}) => last.healthy[last.res]

\* C30's case: a Weighted selection whose draw was beyond the healthy
\* candidates' cumulative weight, over a snapshot with an unhealthy
\* backend.
C30_Witness ==
    /\ strategy = "Weighted"
    /\ last.called
    /\ HealthySet(last.healthy) # {}
    /\ HealthySet(last.healthy) # 1..Len(last.healthy)
    /\ WeightBelow(HealthySet(last.healthy), Len(backends)) > 0
    /\ last.counter % DrawModulus
          >= WeightBelow(HealthySet(last.healthy), Len(backends))

-----------------------------------------------------------------------------
(* Properties of the request hooks and of the registry's composition. *)

Composition(bs) ==
    [i \in 1..Len(bs) |->
        [host |-> bs[i].host, port |-> bs[i].port, weight |-> bs[i].weight]]

\* C26: after load the registry keeps its length, order, hosts, ports and
\* weights; only healthy and last_checked change, and only in a step of
\* the health monitor's tick or of the startup probe, never in a
\* selection.
C26_CompositionFixed ==
    /\ [][main_pc # "load" => Composition(backends') = Composition(backends)]_vars
    /\ [][backends' # backends =>
            \/ main_pc = "load"
            \/ main_pc = "probe_write"
            \/ hc_pc = "probe" /\ lock_w = "hc" /\ hc_i' = hc_i + 1]_vars
    /\ [][calls' # calls => backends' = backends]_vars

\* C26's case: requests were served over a registry in which the health
\* monitor has turned a backend unhealthy and stamped it.
C26_Witness ==
    /\ main_pc = "serving"
    /\ calls >= 2
    /\ now = 2
    /\ \E i \in 1..Len(backends) :
          ~backends[i].healthy /\ backends[i].last_checked = 2
    /\ Composition(backends) = Composition(load_backends(env).backends)

-----------------------------------------------------------------------------
(* The TLS material during a generation. *)

-----------------------------------------------------------------------------
(* The return of is_ssl_enabled. *)

\* ssl/server.pem or ssl/server.key is not on disk.
FileMissing == cert_file.kind = "absent" \/ key_file = "absent"

\* C34: is_ssl_enabled returns only in states where both the certificate
\* file and the key file exist: with SSL on and a file missing it runs
\* generation and exits the process if generation does not report
\* Success; with SSL off it never runs generation, and exits the process
\* if either file is missing.
C34_ReturnsOnlyWithBothFiles ==
    [][(main_pc = "ssl" /\ main_pc' # "ssl") =>
          /\ main_pc' \in {"watch", "load", "exited"}
          /\ main_pc' # "exited" =>
                /\ cert_file'.kind # "absent"
                /\ key_file' # "absent"
                /\ ssl_status' = SslOn(ssl_env)
          /\ (SslOn(ssl_env) /\ FileMissing) =>
                /\ gen'.called
                /\ gen'.status # "Success" => main_pc' = "exited"
          /\ ~SslOn(ssl_env) =>
                /\ ~gen'.called
                /\ UNCHANGED <<cert_file, key_file>>
                /\ FileMissing => main_pc' = "exited"
          /\ (SslOn(ssl_env) /\ ~FileMissing) => ~gen'.called]_vars

\* C34's case: with SSL off and the key missing is_ssl_enabled has ended
\* the process without a generation.
C34_Witness ==
    /\ main_pc = "exited"
    /\ ~SslOn(ssl_env)
    /\ ~gen.called
    /\ ~day_cert.checked
    /\ key_file = "absent"
    /\ cert_file.kind # "absent"

-----------------------------------------------------------------------------
(* Who writes the session map. *)

\* C33: the session map is modified only by a StickySession selection
\* that is given a token: under RoundRobin, Weighted, LeastConnections and
\* Random, and under StickySession when no token is supplied,
\* select_backend leaves the session map unchanged, and upstream_peer
\* passes a token to the selection only under StickySession.
C33_SessionMapFrame ==
    /\ [][session_map' # session_map =>
            /\ calls' = calls + 1
            /\ strategy = "StickySession"
            /\ last'.tok # NoToken]_vars
    /\ [][calls' # calls =>
            /\ last'.called
            /\ last'.tok # NoToken => strategy = "StickySession"
            /\ strategy # "StickySession" => session_map' = session_map]_vars
    /\ []((backends # <<>> /\ req_pc = "filtered") =>
            /\ \A strat \in Strategies \ {"StickySession"} :
                  \A tok \in Tokens \cup {NoToken} :
                     \A r \in RandomDraws(strat, backends) :
                        select_backend(strat, backends, tok, counter,
                                       session_map, r).session_map = session_map
            /\ select_backend("StickySession", backends, NoToken, counter,
                              session_map, 0).session_map = session_map)

\* C33's case: under Weighted a request that carries a cookie has been
\* routed by its selection, after an earlier one, and the session map is
\* still empty.
C33_Witness ==
    /\ strategy = "Weighted"
    /\ req_pc = "routed"
    /\ req_cookie # NoToken
    /\ last.called
    /\ last.tok = NoToken
    /\ calls >= 2
    /\ DOMAIN session_map = {}

-----------------------------------------------------------------------------
(* Two selections with one token. *)

\* Both tasks are at the end of a sticky_session call made with the same
\* token, and each found no usable entry for it when it looked.
BothMissed ==
    /\ sel[1].pc = "done"
    /\ sel[2].pc = "done"
    /\ sel[1].tok = sel[2].tok
    /\ sel[1].miss
    /\ sel[2].miss

\* C32: the lookup and the registration in sticky_session act as one
\* atomic step: two selections that run concurrently with the same token,
\* not yet in the session map, over the same candidates return the same
\* backend, and the entry left in the map for that token points to the
\* backend both were given.
C32_LookupAndRegisterAtomic ==
    BothMissed =>
        /\ sel[1].res = sel[2].res
        /\ Candidates(backends)[session_map[sel[1].tok] + 1] = sel[1].res

-----------------------------------------------------------------------------
(* Weighted over a degraded registry. *)

\* The healthy backends of the registry and the sum S of their weights.
HealthyNow == HealthySet(HealthFlags(backends))
HealthyWeight == WeightBelow(HealthyNow, Len(backends))

\* C31: under Weighted with a fixed health state in which the healthy
\* backends' weights sum to S with 0 < S < 100, over any 100 consecutive
\* selections every healthy backend other than the first healthy one is
\* returned exactly its weight many times, and the first healthy backend
\* is returned its weight plus (100 - S) times: the draws at or above S
\* all go to the first healthy backend.
C31_ShortfallGoesToFirstHealthy ==
    (/\ strategy = "Weighted"
     /\ HealthyNow # {}
     /\ 0 < HealthyWeight
     /\ HealthyWeight < DrawModulus
     /\ Len(run) >= DrawModulus) =>
        \A i \in 1..Len(backends) :
           SharesOf(i) =
              IF i \notin HealthyNow THEN 0
              ELSE IF i = Nth(HealthyNow, 0)
              THEN backends[i].weight + (DrawModulus - HealthyWeight)
              ELSE backends[i].weight

\* C31's case: a window of 100 selections that started past counter 0,
\* over three backends of which the first is unhealthy and two are
\* healthy.
C31_Witness ==
    /\ strategy = "Weighted"
    /\ Len(backends) = 3
    /\ HealthyNow = {2, 3}
    /\ 0 < HealthyWeight
    /\ HealthyWeight < DrawModulus
    /\ Len(run) > DrawModulus + 20
    /\ SharesOf(2) > backends[2].weight

=============================================================================
